---------------------------- MODULE Spec2Model ----------------------------
(* Model of the ant-farm simulation of src/Task2_SE/main.cpp: the ants      *)
(* (Ant, DroneAnt, WarriorAnt, QueenAnt), the colonies (AntFarm), the       *)
(* registry (Meadow) and the driver loop of main().                         *)
EXTENDS Integers, Sequences, FiniteSets, TLC

(***************************************************************************)
(* Bounds of the model                                                     *)
(***************************************************************************)
MaxFarms == 2
MaxCalls == 3
MaxMainCalls == 4
MaxExtras == 1

(***************************************************************************)
(* Program constants                                                       *)
(***************************************************************************)
InitialEnergy == 100
EnergyCap == 100
RestGain == 20
WorkCost == 10
RestThreshold == 30
FoodConsumption == 10
InitialFood == 1000
MAX_TICKS == 1000

(* The ants main() allocates: Queen1, Queen2, Drone1, Warrior1.            *)
NumAnts == 4
AntIds == 1..NumAnts
AntTypeOf(a) ==
    CASE a = 1 -> "QUEEN"
      [] a = 2 -> "QUEEN"
      [] a = 3 -> "DRONE"
      [] OTHER -> "WARRIOR"
QueenIds == {a \in AntIds : AntTypeOf(a) = "QUEEN"}
NullAnt == 0

VARIABLES
    farms,        \* Meadow::farms: sequence of AntFarm records
    energy,       \* Ant::energy of every allocated ant
    trace,        \* what the last operation did: one event per member reached
    lastOp,       \* the last operation called
    calls,        \* setQueen and addAnt calls made so far (act() calls when
                  \* the ants are exercised on their own)
    extras,       \* calls outside the set-up-then-tick order: setup calls made
                  \* after the first tick, and AntFarm::tick called directly
    ticked,       \* some tick has run
    pc,           \* position of main(): "setup", "loop", "done"
    tickCount     \* main()'s tickCount

vars == <<farms, energy, trace, lastOp, calls, extras, ticked, pc, tickCount>>

Min(a, b) == IF a < b THEN a ELSE b
Max(a, b) == IF a > b THEN a ELSE b

(***************************************************************************)
(* Ant                                                                     *)
(***************************************************************************)
rest(e) == Min(EnergyCap, e + RestGain)

\* work() with the sign of the cost slipped
workSignSlip(e) == Max(0, e + WorkCost)

work(e) == Max(0, e - WorkCost)

\* needsRest() with the threshold one work() lower
needsRestLate(e) == e < RestThreshold - WorkCost

\* needsRest() with an inclusive comparison
needsRestInclusive(e) == e <= RestThreshold

needsRest(e) == e < RestThreshold

DroneAct(e) == IF needsRest(e) THEN rest(e) ELSE work(e)

WarriorAct(e) == IF needsRest(e) THEN rest(e) ELSE work(e)

\* QueenAnt::act that rests below the threshold as the other ants do
QueenActRests(e) == IF needsRest(e) THEN rest(e) ELSE work(e)

QueenAct(e) == IF ~needsRest(e) THEN work(e) ELSE e

\* virtual dispatch of Ant::act on the dynamic type
act(a, e) ==
    CASE AntTypeOf(a) = "DRONE" -> DroneAct(e)
      [] AntTypeOf(a) = "WARRIOR" -> WarriorAct(e)
      [] OTHER -> QueenAct(e)

\* consumeFood() that adds the ration to the supply instead of taking it
consumeFoodAdds(foodSupply) ==
    IF foodSupply >= FoodConsumption
    THEN [ok |-> TRUE, foodSupply |-> foodSupply + FoodConsumption]
    ELSE [ok |-> FALSE, foodSupply |-> foodSupply]

\* consumeFood() with a strict comparison
consumeFoodStrict(foodSupply) ==
    IF foodSupply > FoodConsumption
    THEN [ok |-> TRUE, foodSupply |-> foodSupply - FoodConsumption]
    ELSE [ok |-> FALSE, foodSupply |-> foodSupply]

\* Ant::consumeFood(int &foodSupply): the result and the new foodSupply
consumeFood(foodSupply) ==
    IF foodSupply >= FoodConsumption
    THEN [ok |-> TRUE, foodSupply |-> foodSupply - FoodConsumption]
    ELSE [ok |-> FALSE, foodSupply |-> foodSupply]

(***************************************************************************)
(* AntFarm                                                                 *)
(***************************************************************************)
\* a colony that starts with half the supply
NewFarmHalfSupply ==
    [queen |-> NullAnt, ants |-> <<>>, foodSupply |-> InitialFood \div 2, isActive |-> TRUE]

NewFarm == [queen |-> NullAnt, ants |-> <<>>, foodSupply |-> InitialFood, isActive |-> TRUE]

\* isActiveColony() that forgets the isActive flag
isActiveColonyQueenOnly(farm) == farm.queen # NullAnt

isActiveColony(farm) == farm.isActive /\ farm.queen # NullAnt

\* the loop body with the withdrawal made first and act() called only
\* when it succeeded
TickMemberChargeFirst(st, f, i) ==
    LET a == st.farm.ants[i]
        r == consumeFood(st.farm.foodSupply)
        e1 == IF r.ok THEN act(a, st.energy[a]) ELSE st.energy[a]
        ev == [farm |-> f, idx |-> i, ant |-> a,
               e0 |-> st.energy[a], e1 |-> e1,
               before |-> st.farm.foodSupply, ok |-> r.ok,
               after |-> r.foodSupply]
    IN [farm |-> [st.farm EXCEPT !.foodSupply = r.foodSupply,
                                 !.isActive = IF r.ok THEN @ ELSE FALSE],
        energy |-> [st.energy EXCEPT ![a] = e1],
        trace |-> Append(st.trace, ev),
        stop |-> ~r.ok]

\* one pass of the body of the for loop of AntFarm::tick, on member i:
\* act(), then consumeFood(); stop is set when the withdrawal failed
TickMember(st, f, i) ==
    LET a == st.farm.ants[i]
        e1 == act(a, st.energy[a])
        r == consumeFood(st.farm.foodSupply)
        ev == [farm |-> f, idx |-> i, ant |-> a,
               e0 |-> st.energy[a], e1 |-> e1,
               before |-> st.farm.foodSupply, ok |-> r.ok,
               after |-> r.foodSupply]
    IN [farm |-> [st.farm EXCEPT !.foodSupply = r.foodSupply,
                                 !.isActive = IF r.ok THEN @ ELSE FALSE],
        energy |-> [st.energy EXCEPT ![a] = e1],
        trace |-> Append(st.trace, ev),
        stop |-> ~r.ok]

\* The for loop of AntFarm::tick from member i on.  st is
\* [farm, energy, trace, stop]; f is the index of the farm in Meadow::farms.
\* n is the state the pass on member i leaves, out the state at the return.
RECURSIVE TickLoop(_, _, _)
TickLoop(st, f, i) ==
    IF i > Len(st.farm.ants) THEN st
    ELSE CHOOSE out \in {IF n.stop THEN n ELSE TickLoop(n, f, i + 1) :
                             n \in {TickMember(st, f, i)}} : TRUE

\* the early return of AntFarm::tick without its isActive test
FarmTickGuardQueenOnly(farm) == ~(farm.queen = NullAnt)

\* the early return of AntFarm::tick without its queen test
FarmTickGuardActiveOnly(farm) == ~(~farm.isActive)

\* the negation of the early-return condition of AntFarm::tick
FarmTickGuard(farm) == ~(~farm.isActive \/ farm.queen = NullAnt)

\* AntFarm::tick that leaves the loop on a failed withdrawal without
\* clearing isActive
tickKeepsActive(w, f) ==
    IF ~FarmTickGuard(w.farms[f]) THEN w
    ELSE LET r == TickLoop([farm |-> w.farms[f], energy |-> w.energy, trace |-> w.trace,
                            stop |-> FALSE], f, 1)
         IN [farms |-> [w.farms EXCEPT ![f] = [r.farm EXCEPT !.isActive = TRUE]],
             energy |-> r.energy, trace |-> r.trace]

\* AntFarm::tick on farm f of the world w = [farms, energy, trace]

tick(w, f) ==
    IF ~FarmTickGuard(w.farms[f]) THEN w
    ELSE LET r == TickLoop([farm |-> w.farms[f], energy |-> w.energy, trace |-> w.trace,
                            stop |-> FALSE], f, 1)
         IN [farms |-> [w.farms EXCEPT ![f] = r.farm], energy |-> r.energy, trace |-> r.trace]

(***************************************************************************)
(* Meadow                                                                  *)
(***************************************************************************)
\* the for loop of Meadow::tick from farm f on
RECURSIVE MeadowLoop(_, _)
MeadowLoop(w, f) ==
    IF f > Len(w.farms) THEN w
    ELSE CHOOSE out \in {MeadowLoop(n, f + 1) : n \in {tick(w, f)}} : TRUE

MeadowTickResult(fs, en) == MeadowLoop([farms |-> fs, energy |-> en, trace |-> <<>>], 1)

activeColonies(fs) == Cardinality({f \in 1..Len(fs) : isActiveColony(fs[f])})

\* simulationComplete() with an off-by-one comparison
simulationCompleteStrict(fs) == activeColonies(fs) < 1

simulationComplete(fs) == activeColonies(fs) <= 1

(***************************************************************************)
(* Operations                                                              *)
(***************************************************************************)
Init ==
    /\ farms = <<>>
    /\ energy = [a \in AntIds |-> InitialEnergy]
    /\ trace = <<>>
    /\ lastOp = [op |-> "none", farm |-> 0, ant |-> 0]
    /\ calls = 0
    /\ extras = 0
    /\ ticked = FALSE
    /\ pc = "setup"
    /\ tickCount = 0

\* a setup call made once ticking has started is counted as late
CountLate == extras' = IF ticked THEN extras + 1 ELSE extras

\* Meadow::createAntFarm
createAntFarm ==
    /\ Len(farms) < MaxFarms
    /\ farms' = Append(farms, NewFarm)
    /\ trace' = <<>>
    /\ lastOp' = [op |-> "createAntFarm", farm |-> Len(farms) + 1, ant |-> 0]
    /\ CountLate
    /\ UNCHANGED <<energy, calls, ticked, pc, tickCount>>

\* setQueen() that also reactivates the colony
setQueenRevives(farm, q) ==
    [farm EXCEPT !.queen = q, !.ants = Append(@, q), !.isActive = TRUE]

\* setQueen() that takes the previous queen out of the members
setQueenReplaces(farm, q) ==
    [farm EXCEPT !.queen = q,
                 !.ants = Append(SelectSeq(@, LAMBDA x : x # farm.queen), q)]

setQueenResult(farm, q) == [farm EXCEPT !.queen = q, !.ants = Append(@, q)]

\* AntFarm::setQueen on farm f with the queen q
setQueen(f, q) ==
    /\ farms' = [farms EXCEPT ![f] = setQueenResult(@, q)]
    /\ trace' = <<>>
    /\ lastOp' = [op |-> "setQueen", farm |-> f, ant |-> q]
    /\ calls' = calls + 1
    /\ CountLate
    /\ UNCHANGED <<energy, ticked, pc, tickCount>>

addAntResult(farm, a) == [farm EXCEPT !.ants = Append(@, a)]

\* AntFarm::addAnt on farm f with the ant a
addAnt(f, a) ==
    /\ farms' = [farms EXCEPT ![f] = addAntResult(@, a)]
    /\ trace' = <<>>
    /\ lastOp' = [op |-> "addAnt", farm |-> f, ant |-> a]
    /\ calls' = calls + 1
    /\ CountLate
    /\ UNCHANGED <<energy, ticked, pc, tickCount>>

\* AntFarm::tick called on one colony, outside Meadow::tick
FarmTick(f) ==
    /\ extras < MaxExtras
    /\ LET r == tick([farms |-> farms, energy |-> energy, trace |-> <<>>], f)
       IN /\ farms' = r.farms
          /\ energy' = r.energy
          /\ trace' = r.trace
    /\ extras' = extras + 1
    /\ ticked' = TRUE
    /\ lastOp' = [op |-> "farmTick", farm |-> f, ant |-> 0]
    /\ UNCHANGED <<calls, pc, tickCount>>

\* Meadow::tick
MeadowTick ==
    /\ LET r == MeadowTickResult(farms, energy)
       IN /\ farms' = r.farms
          /\ energy' = r.energy
          /\ trace' = r.trace
    /\ ticked' = TRUE
    /\ lastOp' = [op |-> "meadowTick", farm |-> 0, ant |-> 0]
    /\ UNCHANGED <<calls, extras, pc, tickCount>>

\* the setup calls of the interface
Setup ==
    \/ createAntFarm
    \/ \E f \in 1..Len(farms), q \in QueenIds : setQueen(f, q)
    \/ \E f \in 1..Len(farms), a \in AntIds : addAnt(f, a)

(***************************************************************************)
(* The world is set up, then ticked: colonies and ants are registered      *)
(* before the first tick, as main() does.                                  *)
(***************************************************************************)
Next ==
    \/ (pc = "setup" /\ ~ticked /\ calls < MaxCalls /\ Setup)
    \/ (pc = "setup" /\ MeadowTick)

Spec == Init /\ [][Next]_vars

(***************************************************************************)
(* The interface used freely: setup calls may also come after ticks, and   *)
(* one colony may be ticked on its own.                                    *)
(***************************************************************************)
NextLate ==
    \/ (pc = "setup" /\ (ticked => extras < MaxExtras) /\ calls < MaxCalls /\ Setup)
    \/ (pc = "setup" /\ \E f \in 1..Len(farms) : FarmTick(f))
    \/ (pc = "setup" /\ MeadowTick)

SpecLate == Init /\ [][NextLate]_vars

(***************************************************************************)
(* main(): the setup, then the bounded polling loop                        *)
(***************************************************************************)
\* the loop condition without the poll of simulationComplete()
LoopGuardNoPoll == tickCount < MAX_TICKS

\* the condition of the while loop of main()
LoopGuard == ~simulationComplete(farms) /\ tickCount < MAX_TICKS

StartLoop ==
    /\ pc = "setup"
    /\ pc' = "loop"
    /\ tickCount' = 0
    /\ trace' = <<>>
    /\ lastOp' = [op |-> "startLoop", farm |-> 0, ant |-> 0]
    /\ UNCHANGED <<farms, energy, calls, extras, ticked>>

LoopIteration ==
    /\ pc = "loop"
    /\ LoopGuard
    /\ LET r == MeadowTickResult(farms, energy)
       IN /\ farms' = r.farms
          /\ energy' = r.energy
          /\ trace' = r.trace
    /\ tickCount' = tickCount + 1
    /\ ticked' = TRUE
    /\ lastOp' = [op |-> "meadowTick", farm |-> 0, ant |-> 0]
    /\ UNCHANGED <<calls, extras, pc>>

LoopExit ==
    /\ pc = "loop"
    /\ ~LoopGuard
    /\ pc' = "done"
    /\ trace' = <<>>
    /\ lastOp' = [op |-> "exit", farm |-> 0, ant |-> 0]
    /\ UNCHANGED <<farms, energy, calls, extras, ticked, tickCount>>

NextMain ==
    \/ (pc = "setup" /\ calls < MaxMainCalls /\ Setup)
    \/ StartLoop
    \/ LoopIteration
    \/ LoopExit

\* main() runs on: a step of it that is enabled is eventually taken
SpecMain == Init /\ [][NextMain]_vars /\ WF_vars(NextMain)

(***************************************************************************)
(* The world stepped again and again: the setup, then Meadow::tick called  *)
(* for as long as some colony is alive, the calls counted in tickCount.    *)
(***************************************************************************)
WorldStep ==
    /\ pc = "loop"
    /\ \E f \in 1..Len(farms) : isActiveColony(farms[f])
    /\ tickCount < MAX_TICKS
    /\ LET r == MeadowTickResult(farms, energy)
       IN /\ farms' = r.farms
          /\ energy' = r.energy
          /\ trace' = r.trace
    /\ tickCount' = tickCount + 1
    /\ ticked' = TRUE
    /\ lastOp' = [op |-> "meadowTick", farm |-> 0, ant |-> 0]
    /\ UNCHANGED <<calls, extras, pc>>

NextSteps ==
    \/ (pc = "setup" /\ calls < MaxCalls /\ Setup)
    \/ StartLoop
    \/ WorldStep

\* the caller goes on: a step that is enabled is eventually taken
SpecSteps == Init /\ [][NextSteps]_vars /\ WF_vars(NextSteps)

(***************************************************************************)
(* The ants on their own: act() applied to an ant whose energy is any      *)
(* value of the range 0..100 the clamps of rest() and work() allow.        *)
(***************************************************************************)
InitAct ==
    /\ farms = <<>>
    /\ energy \in {[a \in AntIds |-> e] : e \in 0..EnergyCap}
    /\ trace = <<>>
    /\ lastOp = [op |-> "none", farm |-> 0, ant |-> 0]
    /\ calls = 0
    /\ extras = 0
    /\ ticked = FALSE
    /\ pc = "setup"
    /\ tickCount = 0

\* Ant::act called on the ant a
AntAct(a) ==
    /\ calls < MaxCalls
    /\ energy' = [energy EXCEPT ![a] = act(a, @)]
    /\ lastOp' = [op |-> "act", farm |-> 0, ant |-> a]
    /\ calls' = calls + 1
    /\ UNCHANGED <<farms, trace, extras, ticked, pc, tickCount>>

NextAct == \E a \in AntIds : AntAct(a)

SpecAct == InitAct /\ [][NextAct]_vars

(***************************************************************************)
(* Properties                                                              *)
(***************************************************************************)
FarmIds == 1..Len(farms)
Members(f) == {farms[f].ants[i] : i \in 1..Len(farms[f].ants)}
Alive(f) == isActiveColony(farms[f])
IsTick(op) == op.op \in {"farmTick", "meadowTick"}
\* the events of the last operation that belong to farm f
EventsOf(f) == {k \in DOMAIN trace : trace[k].farm = f}

\* C1: the energy of every ant of every kind is within 0..100 in every
\* state, and so is the energy every act() call leaves behind.
C1_EnergyBounds ==
    /\ \A a \in AntIds : 0 <= energy[a] /\ energy[a] <= 100
    /\ \A k \in DOMAIN trace : 0 <= trace[k].e1 /\ trace[k].e1 <= 100

\* a tick in which a queen idled at low energy, a drone rested and a
\* warrior rested
C1_Witness ==
    /\ \E k \in DOMAIN trace :
          AntTypeOf(trace[k].ant) = "QUEEN" /\ trace[k].e0 < 30 /\ trace[k].e1 = trace[k].e0
    /\ \E k \in DOMAIN trace :
          AntTypeOf(trace[k].ant) = "DRONE" /\ trace[k].e0 < 30 /\ trace[k].e1 > trace[k].e0
    /\ \E k \in DOMAIN trace :
          AntTypeOf(trace[k].ant) = "WARRIOR" /\ trace[k].e0 < 30 /\ trace[k].e1 > trace[k].e0

\* C2: no step increases the food supply of any colony, whether the colony
\* is active, inactive or without a queen.
C2_ResourceMonotone ==
    [][\A f \in FarmIds : farms'[f].foodSupply <= farms[f].foodSupply]_vars

\* a tick that charged one colony while another one was already inactive
C2_Witness ==
    /\ IsTick(lastOp)
    /\ \E f \in FarmIds :
          /\ ~farms[f].isActive
          /\ EventsOf(f) = {}
          /\ \E k \in DOMAIN trace : trace[k].ok /\ trace[k].after < trace[k].before

\* the event of the last operation for member i of farm f, if any
EventAt(f, i) == {k \in DOMAIN trace : trace[k].farm = f /\ trace[k].idx = i}

\* farm f has just been ticked with three members and a supply that
\* covered two withdrawals but not three
C3_Case(f) ==
    /\ IsTick(lastOp)
    /\ Len(farms[f].ants) = 3
    /\ \E k \in EventAt(f, 1) :
          /\ trace[k].before >= 2 * FoodConsumption
          /\ trace[k].before < 3 * FoodConsumption

Charged(f, i) ==
    \E k \in EventAt(f, i) :
        trace[k].ok /\ trace[k].after = trace[k].before - FoodConsumption

\* C3 as stated: in that case A and B are charged, the withdrawal of C is
\* never attempted and the colony becomes inactive.
C3_AsStated ==
    \A f \in FarmIds :
        C3_Case(f) =>
            /\ Charged(f, 1) /\ Charged(f, 2)
            /\ EventAt(f, 3) = {}
            /\ ~farms[f].isActive

\* C3 amended: in that case A and B are charged, the withdrawal of C is
\* attempted once, fails and takes nothing, the supply has lost exactly the
\* two rations, and the colony becomes inactive.
C3_ShortCircuit ==
    \A f \in FarmIds :
        C3_Case(f) =>
            /\ Charged(f, 1) /\ Charged(f, 2)
            /\ Cardinality(EventAt(f, 3)) = 1
            /\ \A k \in EventAt(f, 3) :
                  ~trace[k].ok /\ trace[k].after = trace[k].before
            /\ \A k \in EventAt(f, 1) :
                  farms[f].foodSupply = trace[k].before - 2 * FoodConsumption
            /\ ~farms[f].isActive

\* the case with three different members
C3_Witness ==
    \E f \in FarmIds : C3_Case(f) /\ Cardinality(Members(f)) = 3

\* the world as the tick operators take it
World == [farms |-> farms, energy |-> energy, trace |-> <<>>]

\* Meadow::tick with the call on farm f left out
RECURSIVE StepOthers(_, _, _)
StepOthers(w, g, f) ==
    IF g > Len(w.farms) THEN w
    ELSE CHOOSE out \in {StepOthers(n, g + 1, f) :
                             n \in {IF g = f THEN w ELSE tick(w, g)}} : TRUE

C5_LeaderlessNeverTicks ==
    [][\A f \in FarmIds :
          farms[f].queen = NullAnt =>
              /\ ~Alive(f)
              /\ (lastOp'.op = "farmTick" /\ lastOp'.farm = f)
                    => (farms' = farms /\ energy' = energy)
              /\ IsTick(lastOp')
                    => /\ farms'[f] = farms[f]
                       /\ \A k \in DOMAIN trace' : trace'[k].farm # f]_vars

\* a colony with members and no queen has just been stepped directly
C5_Witness ==
    \E f \in FarmIds :
        /\ farms[f].queen = NullAnt
        /\ Len(farms[f].ants) >= 2
        /\ lastOp.op = "farmTick" /\ lastOp.farm = f

\* two colonies of fs have the flag set and a queen
TwoAlive(fs) ==
    \E f, g \in 1..Len(fs) :
        /\ f # g
        /\ fs[f].isActive /\ fs[f].queen # NullAnt
        /\ fs[g].isActive /\ fs[g].queen # NullAnt

\* C6: over the world's steps, simulationComplete() is false after a tick
\* that leaves two colonies alive, true after a tick that leaves at most
\* one, and once true it stays true.
C6_CompletionStable ==
    [][lastOp'.op = "meadowTick" =>
          /\ TwoAlive(farms') => ~simulationComplete(farms')
          /\ ~TwoAlive(farms') => simulationComplete(farms')
          /\ simulationComplete(farms) => simulationComplete(farms')]_vars

\* a tick after which one colony has died and exactly one is still alive
C6_Witness ==
    /\ lastOp.op = "meadowTick"
    /\ simulationComplete(farms)
    /\ \E f, g \in FarmIds :
          /\ farms[f].queen # NullAnt /\ ~farms[f].isActive
          /\ farms[g].queen # NullAnt /\ farms[g].isActive

\* C7: simulationComplete() is true exactly when no two colonies are
\* alive; a world of at most one colony is complete before any step.
C7_CompleteIffAtMostOne ==
    /\ simulationComplete(farms) <=> ~TwoAlive(farms)
    /\ Len(farms) <= 1 => simulationComplete(farms)

\* one colony with a queen, not yet ticked
C7_Witness ==
    /\ Len(farms) = 1
    /\ ~ticked
    /\ farms[1].queen # NullAnt /\ farms[1].isActive
    /\ simulationComplete(farms)

\* C8: a new colony is active, no operation makes an inactive colony
\* active again, and a colony becomes inactive only in a tick in which one
\* of its withdrawals failed.
C8_ActiveMonotone ==
    [][/\ \A f \in FarmIds :
             /\ ~farms[f].isActive => ~farms'[f].isActive
             /\ (farms[f].isActive /\ ~farms'[f].isActive)
                   => /\ IsTick(lastOp')
                      /\ \E k \in DOMAIN trace' : trace'[k].farm = f /\ ~trace'[k].ok
       /\ Len(farms') > Len(farms) => farms'[Len(farms')].isActive]_vars

\* a setup call has just been made on a colony that is inactive
C8_Witness ==
    \E f \in FarmIds :
        /\ ~farms[f].isActive
        /\ lastOp.op \in {"setQueen", "addAnt"} /\ lastOp.farm = f

\* C9: a withdrawal succeeds exactly when the supply covers the ration; it
\* then takes exactly the ration, and otherwise leaves the supply as it
\* was; no supply is ever negative.
C9_Withdraw ==
    /\ \A k \in DOMAIN trace :
          /\ trace[k].ok <=> trace[k].before >= FoodConsumption
          /\ trace[k].ok => trace[k].after = trace[k].before - FoodConsumption
          /\ ~trace[k].ok => trace[k].after = trace[k].before
    /\ \A f \in FarmIds : farms[f].foodSupply >= 0

\* a tick with a withdrawal of the last ration and a failed withdrawal
C9_Witness ==
    /\ \E k \in DOMAIN trace : trace[k].ok /\ trace[k].before = FoodConsumption
    /\ \E k \in DOMAIN trace : ~trace[k].ok /\ trace[k].before = 0

\* C10: the loop of main() makes at most MAX_TICKS steps, makes a step
\* only after a poll that found the simulation not complete, leaves only
\* when the simulation is complete or the bound is reached, and ends.
C10_DriverTerminates ==
    /\ [](tickCount <= MAX_TICKS)
    /\ [][(pc = "loop" /\ tickCount' # tickCount)
             => (~simulationComplete(farms) /\ tickCount' = tickCount + 1)]_vars
    /\ [][(pc = "loop" /\ pc' = "done")
             => (simulationComplete(farms) \/ tickCount = MAX_TICKS)]_vars
    /\ <>(pc = "done")

\* the loop has run and has ended
C10_Witness == pc = "done" /\ tickCount > 0 /\ simulationComplete(farms)

\* C11: a createAntFarm call made after the first tick is rejected or is
\* a no-op: it leaves the sequence of colonies of the world as it was.
C11_LateCreateRejected ==
    [][(ticked /\ lastOp'.op = "createAntFarm") => farms' = farms]_vars

\* C12: whatever setQueen and addAnt calls were made, the queen of every
\* colony occurs exactly once in the colony's member sequence, and a tick
\* steps and charges her at most once.
C12_LeaderOnce ==
    \A f \in FarmIds :
        farms[f].queen # NullAnt =>
            /\ Cardinality({i \in DOMAIN farms[f].ants :
                               farms[f].ants[i] = farms[f].queen}) = 1
            /\ Cardinality({k \in EventsOf(f) : trace[k].ant = farms[f].queen}) <= 1

\* the step of an entity as the specification gives it, by kind and energy
C13_Reference(kind, e) ==
    IF kind \in {"DRONE", "WARRIOR"}
    THEN IF e < 30
         THEN (IF e + 20 < 100 THEN e + 20 ELSE 100)
         ELSE (IF e - 10 > 0 THEN e - 10 ELSE 0)
    ELSE IF e >= 30
         THEN (IF e - 10 > 0 THEN e - 10 ELSE 0)
         ELSE e

\* C13: for every kind and every energy in 0..100, act() leaves the energy
\* the reference function gives: a drone or a warrior below 30 gains 20 up
\* to 100 and otherwise loses 10 down to 0; a queen at 30 or more loses 10
\* and below 30 keeps her energy.  No other ant's energy changes.
C13_StepIsReference ==
    [][lastOp'.op = "act" /\ calls' = calls + 1 =>
          \A a \in AntIds :
              energy'[a] = IF a = lastOp'.ant
                           THEN C13_Reference(AntTypeOf(a), energy[a])
                           ELSE energy[a]]_vars

\* the first act() of a run was a drone's, at energy 29, the last value
\* below the threshold: the drone is at 49 and the queens still at 29
C13_Witness ==
    /\ lastOp.op = "act" /\ calls = 1
    /\ AntTypeOf(lastOp.ant) = "DRONE"
    /\ energy[lastOp.ant] = 49
    /\ \A q \in QueenIds : energy[q] = 29

\* the positions ant a holds in the colonies that have a queen: the number
\* of act() calls a world step makes on a while those colonies are active
StepPositions(a) ==
    UNION {{<<f, i>> : i \in {j \in DOMAIN farms[f].ants : farms[f].ants[j] = a}} :
              f \in {g \in FarmIds : farms[g].queen # NullAnt}}

\* C14: the energy of a queen never increases, and once below 30 it never
\* changes; the queen of a colony stepped from energy 100 loses 10 a step,
\* is at 20 after 8 steps of the colony and at 20 after every later one
\* (a queen holding several member positions loses 10 for each of them
\* and is at 20 sooner).
C14_LeaderNeverRecovers ==
    /\ [][\A q \in QueenIds :
             /\ energy'[q] <= energy[q]
             /\ energy[q] < 30 => energy'[q] = energy[q]]_vars
    /\ [](\A f \in FarmIds :
             (pc = "loop" /\ farms[f].queen # NullAnt) =>
                 LET q == farms[f].queen
                     k == Cardinality(StepPositions(q))
                 IN /\ tickCount >= 8 => energy[q] = 20
                    /\ energy[q] = 100 - 10 * Min(k * tickCount, 8))

\* a colony with two members has made nine steps; its queen holds one
\* position and is at 20
C14_Witness ==
    \E f \in FarmIds :
        /\ pc = "loop" /\ tickCount = 9
        /\ farms[f].queen # NullAnt /\ farms[f].isActive
        /\ Len(farms[f].ants) = 2
        /\ Cardinality(StepPositions(farms[f].queen)) = 1
        /\ energy[farms[f].queen] = 20

\* the number of steps the claim gives a colony of n members: floor(100/n)
C15_Life(f) == 100 \div Len(farms[f].ants)

\* C15: under repeated world steps every colony with a queen becomes
\* inactive and stays so.  With n members it is active, with a supply of
\* 1000 - 10*n*k, after each step k up to floor(100/n); it becomes
\* inactive in step floor(100/n) + 1, at the first member whose withdrawal
\* finds the supply below the ration, the members before that one having
\* been charged; it is inactive after every later step.
C15_ColonyStarves ==
    /\ [](\A f \in FarmIds :
             (pc = "loop" /\ farms[f].queen # NullAnt) =>
                 /\ tickCount <= C15_Life(f) =>
                        /\ farms[f].isActive
                        /\ farms[f].foodSupply = 1000 - 10 * Len(farms[f].ants) * tickCount
                 /\ tickCount > C15_Life(f) => ~farms[f].isActive)
    /\ [][\A f \in FarmIds :
             (farms[f].isActive /\ ~farms'[f].isActive) =>
                 /\ tickCount' = C15_Life(f) + 1
                 /\ \E k \in DOMAIN trace' :
                       /\ trace'[k].farm = f
                       /\ trace'[k].idx = (100 % Len(farms[f].ants)) + 1
                       /\ trace'[k].before < 10 /\ ~trace'[k].ok
                       /\ \A j \in DOMAIN trace' :
                             (trace'[j].farm = f /\ j # k) =>
                                 /\ trace'[j].idx < trace'[k].idx
                                 /\ trace'[j].before >= 10 /\ trace'[j].ok]_vars
    /\ \A f \in 1..MaxFarms :
          <>[]((f \in FarmIds /\ farms[f].queen # NullAnt) => ~farms[f].isActive)

\* a colony of three members has just become inactive in its step 34, at
\* its second member, the first one having taken the last ration
C15_Witness ==
    \E f \in FarmIds :
        /\ farms[f].queen # NullAnt /\ ~farms[f].isActive
        /\ Len(farms[f].ants) = 3 /\ tickCount = 34
        /\ \E k \in EventsOf(f) : trace[k].idx = 1 /\ trace[k].ok /\ trace[k].after = 0
        /\ \E k \in EventsOf(f) : trace[k].idx = 2 /\ ~trace[k].ok

\* Meadow::tick with the colonies visited from the last one to the first
RECURSIVE StepBackwards(_, _)
StepBackwards(w, f) ==
    IF f < 1 THEN w
    ELSE CHOOSE out \in {StepBackwards(n, f - 1) : n \in {tick(w, f)}} : TRUE

\* the world step gives the same colonies and energies in either order
C16_OrderFree ==
    /\ StepBackwards(World, Len(farms)).farms = MeadowTickResult(farms, energy).farms
    /\ StepBackwards(World, Len(farms)).energy = MeadowTickResult(farms, energy).energy

\* C16: in every world built with createAntFarm, setQueen and addAnt, a
\* step of one colony leaves the supply, the flag and the energy of every
\* member of every other colony as they were, and the world step gives
\* the same state whatever the order in which it visits the colonies.
C16_Isolated ==
    /\ [][lastOp'.op = "farmTick" =>
             \A g \in FarmIds \ {lastOp'.farm} :
                 /\ farms'[g] = farms[g]
                 /\ \A a \in Members(g) : energy'[a] = energy[a]]_vars
    /\ []C16_OrderFree

\* the energy the specification's step gives the ant of event ev
C17_Stepped(ev) == ev.e1 = C13_Reference(AntTypeOf(ev.ant), ev.e0)

\* C17: in the tick in which a colony becomes inactive the members are
\* taken in insertion order up to the first failed withdrawal, at some
\* position j: every position before j was stepped and charged, position
\* j was stepped and not charged, no position after j was stepped or
\* charged, the supply lost exactly the j - 1 rations, and an ant that was
\* not stepped in the tick keeps its energy.
C17_CutAtFailure ==
    [][\A f \in FarmIds :
          (farms[f].isActive /\ ~farms'[f].isActive) =>
              \E j \in DOMAIN farms[f].ants :
                  LET Ev(i) == {k \in DOMAIN trace' :
                                   trace'[k].farm = f /\ trace'[k].idx = i}
                  IN /\ \A i \in 1..Len(farms[f].ants) :
                           Cardinality(Ev(i)) = IF i <= j THEN 1 ELSE 0
                     /\ \A i \in 1..j : \A k \in Ev(i) :
                           /\ trace'[k].ant = farms[f].ants[i]
                           /\ C17_Stepped(trace'[k])
                           /\ i < j => /\ trace'[k].ok
                                       /\ trace'[k].after = trace'[k].before - 10
                           /\ i = j => /\ ~trace'[k].ok
                                       /\ trace'[k].after = trace'[k].before
                           /\ \A i2 \in 1..j : \A k2 \in Ev(i2) : i < i2 => k < k2
                     /\ farms'[f].foodSupply = farms[f].foodSupply - 10 * (j - 1)
                     /\ farms'[f].ants = farms[f].ants
                     /\ \A a \in AntIds :
                           LET Of == {k \in DOMAIN trace' : trace'[k].ant = a}
                           IN /\ Of = {} => energy'[a] = energy[a]
                              /\ \A k \in Of :
                                    Cardinality(Of) = 1 =>
                                        /\ trace'[k].e0 = energy[a]
                                        /\ energy'[a] = trace'[k].e1]_vars

\* a colony of three different members has just become inactive: the
\* first was stepped and charged, the second was stepped (its energy
\* changed) and not charged, the third was not reached
C17_Witness ==
    \E f \in FarmIds :
        /\ IsTick(lastOp)
        /\ ~farms[f].isActive
        /\ Len(farms[f].ants) = 3 /\ Cardinality(Members(f)) = 3
        /\ \E k \in EventAt(f, 1) : trace[k].ok
        /\ \E k \in EventAt(f, 2) : ~trace[k].ok /\ trace[k].e1 # trace[k].e0
        /\ EventAt(f, 3) = {}

\* the positions of farm f held by a queen that is not the colony's queen
C18_Former(f) ==
    {i \in DOMAIN farms[f].ants :
        farms[f].ants[i] \in QueenIds \ {farms[f].queen}}

\* C18: a setQueen call on a colony that has a queen, with another queen,
\* replaces the reference and appends the new queen, the members before
\* the call (the former queen among them) keeping their positions; in a
\* tick of the colony the former queen is a member like any other: she is
\* reached unless an earlier withdrawal failed, charged when the supply
\* covers her ration, and stepped and charged in every tick that leaves
\* the colony active; isActiveColony is the flag and a queen being set,
\* whatever the former queen's state.
C18_StaleLeaderStays ==
    /\ [][\A f \in FarmIds :
             /\ (lastOp'.op = "setQueen" /\ lastOp'.farm = f /\ calls' = calls + 1
                    /\ farms[f].queen # NullAnt /\ lastOp'.ant # farms[f].queen)
                   => /\ farms'[f].queen = lastOp'.ant
                      /\ farms'[f].ants = Append(farms[f].ants, lastOp'.ant)
                      /\ farms'[f].isActive = farms[f].isActive
                      /\ farms'[f].foodSupply = farms[f].foodSupply
             /\ (IsTick(lastOp') /\ lastOp'.farm \in {0, f} /\ Alive(f))
                   => \A i \in C18_Former(f) :
                         LET Ev(n) == {k \in DOMAIN trace' :
                                          trace'[k].farm = f /\ trace'[k].idx = n}
                         IN /\ Ev(i) # {} <=>
                                  \A n \in 1..(i - 1) : \E k \in Ev(n) : trace'[k].ok
                            /\ \A k \in Ev(i) :
                                  /\ C17_Stepped(trace'[k])
                                  /\ trace'[k].ok <=> trace'[k].before >= 10
                                  /\ trace'[k].ok =>
                                        trace'[k].after = trace'[k].before - 10
                            /\ farms'[f].isActive =>
                                  \E k \in Ev(i) : trace'[k].ok]_vars
    /\ [](\A f \in FarmIds :
             Alive(f) <=> (farms[f].isActive /\ farms[f].queen # NullAnt))

\* a colony on which setQueen was called with each of the two queens has
\* been ticked more than once and is alive: the former queen, first in
\* the members, was stepped and charged again in the last tick
C18_Witness ==
    \E f \in FarmIds :
        /\ IsTick(lastOp) /\ Alive(f)
        /\ Len(farms[f].ants) = 2
        /\ 1 \in C18_Former(f)
        /\ farms[f].ants[2] = farms[f].queen
        /\ \E k \in EventAt(f, 1) :
              trace[k].ok /\ trace[k].e0 < 100 /\ trace[k].e1 < trace[k].e0

\* a multiple of 10 from 20 to 100
C19_OnGrid(e) == e % 10 = 0 /\ 20 <= e /\ e <= 100

\* C19: in every reachable state the energy of every ant is a multiple of
\* 10 from 20 to 100, and so is the energy before and after every act();
\* every act() gains exactly 20, loses exactly 10 or changes nothing, so
\* neither the clamp of rest() at 100 nor the clamp of work() at 0 ever
\* takes effect.
C19_EnergyGrid ==
    /\ \A a \in AntIds : C19_OnGrid(energy[a])
    /\ \A k \in DOMAIN trace :
          /\ C19_OnGrid(trace[k].e0) /\ C19_OnGrid(trace[k].e1)
          /\ \/ trace[k].e0 < 30 /\ trace[k].e1 = trace[k].e0 + 20
             \/ trace[k].e0 >= 30 /\ trace[k].e1 = trace[k].e0 - 10
             \/ trace[k].e0 < 30 /\ trace[k].e1 = trace[k].e0
                   /\ AntTypeOf(trace[k].ant) = "QUEEN"

\* a tick in which a drone at the lowest energy, 20, rested to 40 and a
\* warrior at 30 worked down to 20, with a queen idling at 20
C19_Witness ==
    /\ \E k \in DOMAIN trace :
          AntTypeOf(trace[k].ant) = "DRONE" /\ trace[k].e0 = 20 /\ trace[k].e1 = 40
    /\ \E k \in DOMAIN trace :
          AntTypeOf(trace[k].ant) = "WARRIOR" /\ trace[k].e0 = 30 /\ trace[k].e1 = 20
    /\ \E k \in DOMAIN trace :
          AntTypeOf(trace[k].ant) = "QUEEN" /\ trace[k].e0 = 20 /\ trace[k].e1 = 20

\* the world main() builds: farm1 with Queen1 then Drone1, farm2 with
\* Queen2 then Warrior1, and the loop entered
C20_Shipped ==
    /\ pc \in {"loop", "done"}
    /\ Len(farms) = 2
    /\ farms[1].queen = 1 /\ farms[1].ants = <<1, 3>>
    /\ farms[2].queen = 2 /\ farms[2].ants = <<2, 4>>

\* C20: in the world main() builds both colonies are alive, with a supply
\* of 1000 - 20*k, and simulationComplete() is false after each tick k up
\* to 50; both become inactive in tick 51, so the number of colonies alive
\* is never exactly one; the loop makes no tick after that and ends after
\* exactly 51 ticks with no colony alive.
C20_ShippedRun ==
    /\ [](C20_Shipped =>
             /\ tickCount <= 51
             /\ tickCount <= 50 =>
                    /\ \A f \in {1, 2} :
                          /\ isActiveColony(farms[f])
                          /\ farms[f].foodSupply = 1000 - 20 * tickCount
                    /\ ~simulationComplete(farms)
                    /\ pc = "loop"
             /\ tickCount = 51 =>
                    /\ \A f \in {1, 2} : ~isActiveColony(farms[f])
                    /\ simulationComplete(farms)
             /\ activeColonies(farms) # 1
             /\ pc = "done" => (tickCount = 51 /\ activeColonies(farms) = 0))
    /\ [][(C20_Shipped /\ tickCount = 50 /\ tickCount' = 51) =>
             \A f \in {1, 2} :
                 \E k \in DOMAIN trace' :
                     /\ trace'[k].farm = f /\ trace'[k].idx = 1
                     /\ trace'[k].before = 0 /\ ~trace'[k].ok]_vars
    /\ (C20_Shipped ~> (pc = "done" /\ tickCount = 51))

\* main() has left its loop in the world it builds
C20_Witness ==
    /\ C20_Shipped
    /\ pc = "done" /\ tickCount = 51
    /\ activeColonies(farms) = 0

=============================================================================
